---- MODULE Spec2Model ----
(***************************************************************************)
(* State-machine model of the chart engine of the ES options monitor:      *)
(* UnifiedChart (src/gui/unified_chart.py) as driven by ESOptionsWindow    *)
(* and OptionsDataProcessor.process_market_data.                           *)
(*                                                                         *)
(* Number representation.  The program computes with Python floats; the    *)
(* model computes exactly, with integers in fixed units and with rationals *)
(* [n, d] for pixel coordinates:                                           *)
(*   prices     integers, PriceUnit units per dollar (a tick is 0.25)      *)
(*   zooms      integers, ZoomUnit units per 1.0                           *)
(*   exposures  integers, ExpUnit units per 1.0                            *)
(*   deltas     integers, DeltaUnit units per 1.0                          *)
(* Optional values (None or a number) are <<>> or <<v>>.                   *)
(***************************************************************************)
EXTENDS Integers, Sequences, FiniteSets, TLC

\* ------------------------------------------------------------------ bounds
MaxBars == 2
MaxRows == 2
MaxMoves == 2
MaxCount == 7
MaxPolls == 3
MaxItems == 40

\* ------------------------------------------------------------------ units
PriceUnit == 20 * 100
Tick == PriceUnit \div 4
ZoomUnit == 10 * 10
DeltaUnit == 10 * 10
ExpUnit == DeltaUnit * (PriceUnit \div Tick)

\* ------------------------------------------------- program constants
margin_left == 50
margin_right == 100
strike_margin == 60
margin_bottom == 40
margin_top == 20
CanvasWidth == 1400
CanvasHeight == 750
ContractMultiplier == 50
NumLabels == 5

\* ------------------------------------------------------------------ helpers
None == <<>>
Some(v) == <<v>>
Some2(a, b) == <<a, b>>
\* Python truthiness of an optional number: None and 0 are false
Truthy(o) == o # None /\ o[1] # 0

Max2(a, b) == IF a >= b THEN a ELSE b
Min2(a, b) == IF a <= b THEN a ELSE b
Abs(a) == IF a < 0 THEN -a ELSE a

\* rationals n/d with d > 0
Rat(n, d) == [n |-> n, d |-> d]
RatInt(i) == Rat(i, 1)
RatEq(a, b) == a.n * b.d = b.n * a.d
RatLt(a, b) == a.n * b.d < b.n * a.d
RatLe(a, b) == a.n * b.d <= b.n * a.d
RatAbs(a) == Rat(Abs(a.n), a.d)

RECURSIVE SeqMin(_)
SeqMin(s) == IF Len(s) = 1 THEN s[1] ELSE Min2(s[1], SeqMin(Tail(s)))
RECURSIVE SeqMax(_)
SeqMax(s) == IF Len(s) = 1 THEN s[1] ELSE Max2(s[1], SeqMax(Tail(s)))

RECURSIVE SeqsUpTo(_, _)
\* all sequences over S of length at most k
SeqsUpTo(S, k) ==
  IF k = 0 THEN {<<>>}
  ELSE LET shorter == SeqsUpTo(S, k - 1)
       IN  shorter \cup {Append(s, x) : s \in {t \in shorter : Len(t) = k - 1}, x \in S}

\* ------------------------------------------------------------------ samples
\* A price sample (bar).  kind "quote" has the attributes bid and ask, kind
\* "trade" has close only, kind "bare" has none of them.
Price(dollars, quarters) == dollars * PriceUnit + quarters * Tick
QuoteBar(b, a) == [kind |-> "quote", bid |-> b, ask |-> a, close |-> 0]
TradeBar(c) == [kind |-> "trade", bid |-> 0, ask |-> 0, close |-> c]
BareBar == [kind |-> "bare", bid |-> 0, ask |-> 0, close |-> 0]
HasBidAsk(bar) == bar.kind = "quote"
HasClose(bar) == bar.kind \in {"quote", "trade"}

Samples ==
  { QuoteBar(Price(5000, 0), Price(5000, 2)),
    TradeBar(Price(5002, 2)),
    BareBar }
Histories == SeqsUpTo(Samples, MaxBars)

Quotes == { <<Price(5001, 0), Price(5002, 0)>>, <<Price(5003, 1), Price(5003, 3)>> }

\* ------------------------------------------------------------------ tickers
\* An option ticker, or NoTicker for None.  greeks: modelGreeks is present;
\* delta is modelGreeks.delta (0 when None).
NoTicker == [kind |-> "None", greeks |-> FALSE, delta |-> 0, volume |-> 0,
             right |-> "C", callOpenInterest |-> 0, putOpenInterest |-> 0]
CallTicker(g, d, v, oi) ==
  [kind |-> "ticker", greeks |-> g, delta |-> d, volume |-> v,
   right |-> "C", callOpenInterest |-> oi, putOpenInterest |-> 0]
PutTicker(g, d, v, oi) ==
  [kind |-> "ticker", greeks |-> g, delta |-> d, volume |-> v,
   right |-> "P", callOpenInterest |-> 0, putOpenInterest |-> oi]

ExposureTypes == {"DEX", "VOI", "OI", "GFL"}

\* --------------------------------------------------------- canvas items
\* One Tk canvas item.  y, w: rationals (pixels); pts: the points of a
\* polyline, each [x, y] a pair of rationals.
\* x, y: the item's anchor; w: its horizontal extent (a bar's length)
Item(kind, key, x, y, w) ==
  [kind |-> kind, key |-> key, x |-> x, y |-> y, w |-> w, pts |-> <<>>]
Polyline(kind, pts) ==
  [kind |-> kind, key |-> Len(pts), x |-> RatInt(0), y |-> RatInt(0),
   w |-> RatInt(0), pts |-> pts]
Done(items) == [items |-> items, err |-> "none"]
Raised(items, e) == [items |-> items, err |-> e]
\* the items of stage r, then those of stage next unless r raised
Then(r, next) ==
  IF r.err # "none" THEN r ELSE [items |-> r.items \o next.items, err |-> next.err]

\* ------------------------------------------------------------ UnifiedChart
usable_width(c) == c.winfo_width - margin_left - margin_right - strike_margin
usable_height(c) == c.winfo_height - margin_top - margin_bottom

\* the zoomed and panned price window of _price_to_y and _draw_price_scale
center_price(c) == (c.price_scale[2] + c.price_scale[1]) \div 2
zoomed_range(c) ==
  ((c.price_scale[2] - c.price_scale[1]) * c.vertical_zoom) \div ZoomUnit
WindowMin(c) == center_price(c) - (zoomed_range(c) \div 2) + c.price_offset
WindowMax(c) == center_price(c) + (zoomed_range(c) \div 2) + c.price_offset

\* _price_to_y raises ZeroDivisionError when the window is empty
ZeroWindow(c) == c.price_scale # None /\ WindowMax(c) - WindowMin(c) = 0

\* variant: the fraction measured from the window's minimum (axis not flipped)
price_to_y_unflipped(c, p) ==
  IF c.price_scale = None THEN RatInt(0)
  ELSE LET d == WindowMax(c) - WindowMin(c)
       IN  Rat(margin_top * d * p.d + (p.n - WindowMin(c) * p.d) * usable_height(c),
               d * p.d)

\* _price_to_y for a rational price p, where it does not raise
price_to_y(c, p) ==
  IF c.price_scale = None THEN RatInt(0)
  ELSE LET d == WindowMax(c) - WindowMin(c)
       IN  Rat(margin_top * d * p.d + (WindowMax(c) * p.d - p.n) * usable_height(c),
               d * p.d)

\* variant: the signed delta instead of its magnitude
calculate_exposure_signed(spot, ticker, exposure_type) ==
  IF ticker.kind = "None" \/ ~ticker.greeks THEN 0
  ELSE LET delta == ticker.delta
           oi == IF ticker.right = "C" THEN ticker.callOpenInterest
                 ELSE ticker.putOpenInterest
       IN  CASE exposure_type = "DEX" ->
                  delta * oi * ContractMultiplier * (ExpUnit \div DeltaUnit)
             [] exposure_type = "VOI" -> ticker.volume * oi * ExpUnit
             [] exposure_type = "GFL" /\ Truthy(spot) ->
                  delta * oi * (spot[1] \div Tick)
             [] OTHER -> oi * ExpUnit

\* variant: only a missing ticker yields 0, a ticker without greeks does not
calculate_exposure_unguarded(spot, ticker, exposure_type) ==
  IF ticker.kind = "None" THEN 0
  ELSE LET delta == Abs(ticker.delta)
           oi == IF ticker.right = "C" THEN ticker.callOpenInterest
                 ELSE ticker.putOpenInterest
       IN  CASE exposure_type = "DEX" ->
                  delta * oi * ContractMultiplier * (ExpUnit \div DeltaUnit)
             [] exposure_type = "VOI" -> ticker.volume * oi * ExpUnit
             [] exposure_type = "GFL" /\ Truthy(spot) ->
                  delta * oi * (spot[1] \div Tick)
             [] OTHER -> oi * ExpUnit

\* _calculate_exposure, with the spot the object holds
calculate_exposure(spot, ticker, exposure_type) ==
  IF ticker.kind = "None" \/ ~ticker.greeks THEN 0
  ELSE LET delta == Abs(ticker.delta)
           volume == ticker.volume
           oi == IF ticker.right = "C" THEN ticker.callOpenInterest
                 ELSE ticker.putOpenInterest
       IN  CASE exposure_type = "DEX" ->
                  delta * oi * ContractMultiplier * (ExpUnit \div DeltaUnit)
             [] exposure_type = "VOI" -> volume * oi * ExpUnit
             [] exposure_type = "GFL" /\ Truthy(spot) ->
                  delta * oi * (spot[1] \div Tick)
             [] OTHER -> oi * ExpUnit

\* variant: a grid layer that draws nothing
draw_no_grid(c) == Done(<<>>)
\* _draw_empty_grid: five dashed grid lines and the two axes
draw_empty_grid(c) ==
  Done([i \in 1..5 |->
          Item("grid", i - 1, RatInt(margin_left),
               Rat(margin_top * 4 + (i - 1) * usable_height(c), 4),
               RatInt(usable_width(c)))]
       \o << Item("axis", 0, RatInt(margin_left),
                  RatInt(c.winfo_height - margin_bottom), RatInt(usable_width(c))),
             Item("axis", 1, RatInt(margin_left + usable_width(c)),
                  RatInt(margin_top), RatInt(0)) >>)

\* _draw_price_scale: five price levels, each a grid line and a label
draw_price_scale(c) ==
  IF c.price_scale = None THEN Done(<<>>)
  ELSE IF ZeroWindow(c) THEN Raised(<<>>, "ZeroDivisionError")
  ELSE LET d == WindowMax(c) - WindowMin(c)
           y(i) == price_to_y(c, Rat(4 * WindowMax(c) - i * d, 4))
           level(i) ==
             << Item("price_grid", i, RatInt(margin_left), y(i),
                     RatInt(usable_width(c))),
                Item("price_label", i,
                     RatInt(c.winfo_width - margin_right - strike_margin + 25),
                     y(i), RatInt(0)) >>
       IN  Done(level(0) \o level(1) \o level(2) \o level(3) \o level(4))

\* _get_visible_bars
get_visible_bars(c) ==
  IF c.price_history = <<>> THEN <<>>
  ELSE LET total_bars == Len(c.price_history)
           visible_bars == (total_bars * ZoomUnit) \div c.horizontal_zoom
           start_idx == Max2(0, total_bars - visible_bars)
       IN  SubSeq(c.price_history, start_idx + 1, total_bars)

\* _draw_time_axis: the indices range(0, len(bars), step) that get a label
time_label_step(n) == Max2(1, n \div (NumLabels - 1))
time_label_indices(n) == {i \in 0..(n - 1) : i % time_label_step(n) = 0}
draw_time_axis(c, bars) ==
  LET n == Len(bars)
      idx == time_label_indices(n)
      \* the k-th labelled index, in ascending order
      nth(k) == CHOOSE i \in idx : Cardinality({j \in idx : j < i}) = k - 1
  IN  Done([k \in 1..Cardinality(idx) |->
              Item("time_label", nth(k),
                   Rat(margin_left * n + usable_width(c) * nth(k), n),
                   RatInt(c.winfo_height - margin_bottom + 20), RatInt(0))])

\* _draw_price_history
draw_price_history(c) ==
  LET visible_bars == get_visible_bars(c)
      n == Len(visible_bars)
      x(i) == Rat(margin_left * n + usable_width(c) * (i - 1), n)
      bid_points == [i \in 1..n |->
         [x |-> x(i),
          y |-> price_to_y(c, RatInt(IF HasBidAsk(visible_bars[i])
                                     THEN visible_bars[i].bid
                                     ELSE visible_bars[i].close))]]
      ask_points == [i \in 1..n |->
         [x |-> x(i),
          y |-> price_to_y(c, RatInt(IF HasBidAsk(visible_bars[i])
                                     THEN visible_bars[i].ask
                                     ELSE visible_bars[i].close))]]
      points ==
        IF \E i \in 1..n : ~HasBidAsk(visible_bars[i]) /\ ~HasClose(visible_bars[i])
        THEN Raised(<<>>, "AttributeError")
        ELSE Done((IF n >= 2 THEN <<Polyline("bid_line", bid_points)>> ELSE <<>>)
                  \o (IF n >= 2 THEN <<Polyline("ask_line", ask_points)>> ELSE <<>>))
      labels ==
        IF Truthy(c.current_bid) /\ Truthy(c.current_ask)
        THEN Done(<< Item("bid_label", 0,
                          RatInt(c.winfo_width - margin_right - strike_margin + 5),
                          price_to_y(c, RatInt(c.current_bid[1])), RatInt(0)),
                     Item("ask_label", 0,
                          RatInt(c.winfo_width - margin_right - strike_margin + 5),
                          price_to_y(c, RatInt(c.current_ask[1])), RatInt(0)) >>)
        ELSE Done(<<>>)
  IN  Then(Then(Then(draw_price_scale(c), points), labels),
           draw_time_axis(c, visible_bars))

\* ---------------------------------------------------------- options layer
Row(strike, call_ticker, put_ticker) ==
  [strike |-> strike, call |-> call_ticker, put |-> put_ticker]
\* Python truthiness of an optional list: None and [] are false
ListTruthy(o) == o # None /\ Len(o[1]) > 0

\* the exposures list of _draw_options_data: (strike, call_exp, put_exp) per row
exposures(c) ==
  [i \in 1..Len(c.options_data[1]) |->
     [strike |-> c.options_data[1][i].strike,
      call_exp |-> calculate_exposure(c.current_bid, c.options_data[1][i].call,
                                      c.exposure_type),
      put_exp |-> calculate_exposure(c.current_bid, c.options_data[1][i].put,
                                     c.exposure_type)]]
\* max_exp = max(max_exp, call_exp, put_exp) over the rows, from 0
RECURSIVE running_max(_, _)
running_max(exps, m) ==
  IF exps = <<>> THEN m
  ELSE running_max(Tail(exps), Max2(m, Max2(exps[1].call_exp, exps[1].put_exp)))
\* variant: the running maximum taken over the call side only
RECURSIVE calls_running_max(_, _)
calls_running_max(exps, m) ==
  IF exps = <<>> THEN m
  ELSE calls_running_max(Tail(exps), Max2(m, exps[1].call_exp))
max_exp_calls_only(c) == calls_running_max(exposures(c), 0)
max_exp(c) == running_max(exposures(c), 0)

\* the bars and the strike label of one row
draw_row(c, e, m) ==
  LET y == price_to_y(c, RatInt(e.strike))
      axis_x == RatInt(c.winfo_width - margin_right - strike_margin)
      call_width == Rat(e.call_exp * usable_width(c), m)
      put_width == Rat(e.put_exp * usable_width(c), m)
  IN  (IF e.call_exp > 0 THEN <<Item("call_bar", e.strike, axis_x, y, call_width)>>
       ELSE <<>>)
      \o (IF e.put_exp > 0 THEN <<Item("put_bar", e.strike, axis_x, y, put_width)>>
          ELSE <<>>)
      \o <<Item("strike_label", e.strike, RatInt(c.winfo_width - margin_right + 10),
                y, RatInt(0))>>
RECURSIVE draw_rows(_, _, _)
draw_rows(c, exps, m) ==
  IF exps = <<>> THEN <<>> ELSE draw_row(c, exps[1], m) \o draw_rows(c, Tail(exps), m)

\* _draw_options_data
draw_options_data(c) ==
  IF ~ListTruthy(c.options_data) \/ ~Truthy(c.max_exposure) THEN Done(<<>>)
  ELSE IF ZeroWindow(c) THEN Raised(<<>>, "ZeroDivisionError")
  ELSE IF max_exp(c) = 0 THEN Raised(<<>>, "ZeroDivisionError")
  ELSE Done(draw_rows(c, exposures(c), max_exp(c)))

\* _draw_current_price: the dashed line at the mid price
draw_current_price(c) ==
  IF ZeroWindow(c) THEN Raised(<<>>, "ZeroDivisionError")
  ELSE Done(<< Item("current_price", 0, RatInt(margin_left),
                    price_to_y(c, RatInt((c.current_bid[1] + c.current_ask[1]) \div 2)),
                    RatInt(usable_width(c))) >>)

\* redraw: delete("all"), then the layers in order; a layer that raises ends it
redraw(c) ==
  IF c.price_history = <<>> /\ ~ListTruthy(c.options_data) THEN draw_empty_grid(c)
  ELSE Then(Then(Then(draw_empty_grid(c),
                      IF c.price_history # <<>> /\ c.price_scale # None
                      THEN draw_price_history(c) ELSE Done(<<>>)),
                 IF ListTruthy(c.options_data)
                 THEN draw_options_data(c) ELSE Done(<<>>)),
            IF Truthy(c.current_bid) /\ Truthy(c.current_ask)
            THEN draw_current_price(c) ELSE Done(<<>>))

\* ------------------------------------------------ OptionsDataProcessor
\* process_market_data: the maximum exposure of the tickers, at least 1.0
process_market_data(spot, rows, exposure_type) ==
  LET exps == [i \in 1..Len(rows) |->
                 [call_exp |-> calculate_exposure(spot, rows[i].call, exposure_type),
                  put_exp |-> calculate_exposure(spot, rows[i].put, exposure_type)]]
  IN  Max2(running_max(exps, 0), ExpUnit)

\* ------------------------------------------------------------------ state
VARIABLES
  chart,    \* the UnifiedChart object: its attributes and its canvas size
  canvas,   \* the items on the Tk canvas, in drawing order
  err,      \* the exception the last handler raised, or "none"
  lastOp,   \* the last handler that ran
  moves,    \* number of pointer-motion steps that changed the viewport
  probe     \* argument and result of a function applied on its own, or
            \* the history of the pointer gestures (fn = "track")
vars == <<chart, canvas, err, lastOp, moves, probe>>

NoProbe == [fn |-> "none"]

\* UnifiedChart.__init__
NewChart(w, h) ==
  [ price_history |-> <<>>, current_bid |-> None, current_ask |-> None,
    options_data |-> None, max_exposure |-> None, exposure_type |-> "GFL",
    price_scale |-> None, vertical_zoom |-> ZoomUnit, horizontal_zoom |-> ZoomUnit,
    price_offset |-> 0, zoom_start |-> None, drag_start |-> None,
    winfo_width |-> w, winfo_height |-> h ]

\* the chart after construction and the window's first layout pass
Init ==
  /\ chart = NewChart(CanvasWidth, CanvasHeight)
  /\ canvas = <<>>
  /\ err = "none"
  /\ lastOp = "init"
  /\ moves = 0
  /\ probe = NoProbe

\* The history of the pointer gestures, kept where probe.fn = "track":
\*   before      the price viewport and the zoom anchor of the object as it
\*               was before the last handler ran
\*   drag_press  where the last <Button-1> landed: "inside" an axis margin,
\*               "outside" both, or "none" yet; zoom_press: the same for the
\*               last <Control-Button-1>
\*   pan_origin  <<y0, price_offset at y0>> of the price-axis pan whose anchor
\*               is set, while vertical_zoom has kept its value, else None
Viewport(c) ==
  [vertical_zoom |-> c.vertical_zoom, price_offset |-> c.price_offset,
   price_scale |-> c.price_scale, winfo_height |-> c.winfo_height,
   zoom_start |-> c.zoom_start]
Tracking(c) ==
  [fn |-> "track", before |-> Viewport(c), drag_press |-> "none", zoom_press |-> "none",
   pan_origin |-> None]
\* the history after handler op has turned the object into c; press tells where
\* a button press landed ("none" for the other handlers)
observe(c, op, press) ==
  IF probe.fn # "track" THEN probe
  ELSE [probe EXCEPT
          !.before = Viewport(chart),
          !.drag_press = IF op = "start_drag" THEN press ELSE @,
          !.zoom_press = IF op = "start_zoom" THEN press ELSE @,
          !.pan_origin =
             IF c.drag_start = None \/ c.vertical_zoom # chart.vertical_zoom
             THEN None
             ELSE IF op = "start_drag" /\ press = "inside"
             THEN IF c.drag_start[3] = "price"
                  THEN <<c.drag_start[2], c.price_offset>> ELSE None
             ELSE @]

\* variant: a delete that leaves the items on the canvas
delete_all_kept(items) == items
\* self.delete("all"): what is left of the items on the canvas
delete_all(items) == <<>>

\* variant: a handler that updates the object and leaves the canvas as it was
EndsWithoutRedraw(c, op) ==
  /\ chart' = c
  /\ lastOp' = op
  /\ UNCHANGED <<canvas, err, probe>>

\* a handler that ends in self.redraw() on the object c it has updated
EndsInRedraw(c, op) ==
  /\ chart' = c
  /\ LET r == redraw(c)
     IN  canvas' = delete_all(canvas) \o r.items /\ err' = r.err
  /\ lastOp' = op
  /\ probe' = observe(c, op, "none")

\* update_prices(bid, ask)
update_prices(bid, ask) ==
  /\ UNCHANGED moves
  /\ EndsInRedraw([chart EXCEPT !.current_bid = bid, !.current_ask = ask],
               "update_prices")

\* the prices list update_history collects, where no bar lacks its attribute
RECURSIVE bar_prices(_)
bar_prices(bars) ==
  IF bars = <<>> THEN <<>>
  ELSE (IF HasBidAsk(bars[1]) THEN <<bars[1].bid, bars[1].ask>> ELSE <<bars[1].close>>)
       \o bar_prices(Tail(bars))
\* the price scale update_history computes
new_price_scale(bars) ==
  LET prices == bar_prices(bars)
      min_price == SeqMin(prices)
      max_price == SeqMax(prices)
      price_range == max_price - min_price
  IN  Some2(min_price - price_range \div 10, max_price + price_range \div 10)

\* update_history(bars)
update_history(bars) ==
  IF bars # <<>> /\ \E i \in 1..Len(bars) : ~HasBidAsk(bars[i]) /\ ~HasClose(bars[i])
  THEN \* bar.close raises: the history is replaced, nothing else happens
       /\ chart' = [chart EXCEPT !.price_history = bars]
       /\ err' = "AttributeError"
       /\ lastOp' = "update_history"
       /\ UNCHANGED <<canvas, moves, probe>>
  ELSE /\ UNCHANGED moves
       /\ EndsInRedraw([chart EXCEPT !.price_history = bars,
                                  !.price_scale = IF bars # <<>>
                                                  THEN new_price_scale(bars)
                                                  ELSE @],
                    "update_history")

\* update_options(data, max_exposure, spot_price, exposure_type);
\* spot_price and exposure_type are optional
update_options(data, max_exposure, spot_price, exposure_type) ==
  /\ UNCHANGED moves
  /\ EndsInRedraw([chart EXCEPT
                  !.options_data = data,
                  !.max_exposure = max_exposure,
                  !.current_bid = IF Truthy(spot_price) THEN spot_price ELSE @,
                  !.current_ask = IF Truthy(spot_price) THEN spot_price ELSE @,
                  !.exposure_type = IF exposure_type # None THEN exposure_type[1]
                                    ELSE @],
               "update_options")

\* redraw() called on its own
call_redraw ==
  /\ UNCHANGED moves
  /\ EndsInRedraw(chart, "redraw")

\* ESOptionsWindow.update_chart, given what MarketMonitor.refresh_options hands
\* it: the tickers and process_market_data's maximum under the selected formula
update_chart(rows, spot_price) ==
  update_options(Some(rows),
                 Some(process_market_data(spot_price, rows, chart.exposure_type)),
                 spot_price, Some(chart.exposure_type))

\* ESOptionsWindow._on_exposure_changed: the combobox selects exposure_type
on_exposure_changed(exposure_type) ==
  update_options(chart.options_data, chart.max_exposure, chart.current_bid,
                 Some(exposure_type))

\* ---------------------------------------------------------------- gestures
\* variant: the factor of the distance moved, whatever its direction
exp200_abs(d) ==
  CASE Abs(d) = 0 -> 100
    [] Abs(d) = 100 -> 165
    [] Abs(d) = 200 -> 272
    [] Abs(d) = 300 -> 448
    [] Abs(d) = 400 -> 739
    [] Abs(d) = 500 -> 1218
    [] Abs(d) = 600 -> 2009
    [] Abs(d) = 700 -> 3312
    [] Abs(d) = 800 -> 5460
    [] Abs(d) = 900 -> 9002
    [] Abs(d) = 1000 -> 14841
\* math.exp(d / 200) in ZoomUnit units, for the pointer deltas d of the model
exp200(d) ==
  CASE d = -1000 -> 1
    [] d = -900 -> 1
    [] d = -800 -> 2
    [] d = -700 -> 3
    [] d = -600 -> 5
    [] d = -500 -> 8
    [] d = -400 -> 14
    [] d = -300 -> 22
    [] d = -200 -> 37
    [] d = -100 -> 61
    [] d = 0 -> 100
    [] d = 100 -> 165
    [] d = 200 -> 272
    [] d = 300 -> 448
    [] d = 400 -> 739
    [] d = 500 -> 1218
    [] d = 600 -> 2009
    [] d = 700 -> 3312
    [] d = 800 -> 5460
    [] d = 900 -> 9002
    [] d = 1000 -> 14841

\* variant: the lower clamp only
clamp_zoom_unbounded(zoom) == Max2(ZoomUnit \div 10, zoom)
\* max(0.1, min(10.0, zoom))
clamp_zoom(zoom) == Max2(ZoomUnit \div 10, Min2(10 * ZoomUnit, zoom))
\* zoom * zoom_factor, rounded to the unit
scale_zoom(zoom, zoom_factor) == (zoom * zoom_factor + ZoomUnit \div 2) \div ZoomUnit

\* the anchor a press at e leaves: on the right margin, on the bottom margin,
\* or none (the attribute keeps its value)
press_anchor(c, e, old) ==
  IF c.winfo_width - e.x <= margin_right + strike_margin
  THEN <<e.x, e.y, "price">>
  ELSE IF e.y > c.winfo_height - margin_bottom
  THEN <<e.x, e.y, "time">>
  ELSE old

\* a handler that does not redraw
NoRedraw(c, op) ==
  /\ chart' = c
  /\ err' = "none"
  /\ lastOp' = op
  /\ probe' = observe(c, op, "none")
  /\ UNCHANGED <<canvas, moves>>

\* a button press at e: the handler op has turned the object into c
Pressed(c, op, e) ==
  /\ chart' = c
  /\ err' = "none"
  /\ lastOp' = op
  /\ probe' = observe(c, op, IF press_anchor(chart, e, None) # None
                             THEN "inside" ELSE "outside")
  /\ UNCHANGED <<canvas, moves>>

\* start_drag(event)
start_drag(e) ==
  Pressed([chart EXCEPT !.drag_start = press_anchor(chart, e, @)], "start_drag", e)

\* variant: the pan that leaves the anchor where the button was pressed
drag_price_anchor_kept(c, e) ==
  [c EXCEPT !.price_offset =
               @ + ((e.y - c.drag_start[2]) * PriceUnit * c.vertical_zoom)
                      \div (20 * ZoomUnit)]
\* the price branch of handle_drag: dy = (event.y - y) * 0.05,
\* price_offset += dy * vertical_zoom, drag_start = (x, event.y, drag_type)
drag_price(c, e) ==
  [c EXCEPT !.price_offset =
               @ + ((e.y - c.drag_start[2]) * PriceUnit * c.vertical_zoom)
                      \div (20 * ZoomUnit),
            !.drag_start = <<c.drag_start[1], e.y, c.drag_start[3]>>]

\* handle_drag(event)
handle_drag(e) ==
  IF chart.drag_start = None THEN NoRedraw(chart, "handle_drag")
  ELSE LET x == chart.drag_start[1]
           y == chart.drag_start[2]
           drag_type == chart.drag_start[3]
       IN  /\ moves < MaxMoves
           /\ moves' = moves + 1
           /\ EndsInRedraw(
                IF drag_type = "price"
                THEN drag_price(chart, e)
                ELSE [chart EXCEPT
                        !.horizontal_zoom =
                           Max2(ZoomUnit, @ + ((e.x - x) * ZoomUnit) \div 100),
                        !.drag_start = <<e.x, y, drag_type>>],
                "handle_drag")

\* end_drag(event)
end_drag == NoRedraw([chart EXCEPT !.drag_start = None], "end_drag")

\* start_zoom(event)
start_zoom(e) ==
  Pressed([chart EXCEPT !.zoom_start = press_anchor(chart, e, @)], "start_zoom", e)

\* handle_zoom(event)
handle_zoom(e) ==
  IF chart.zoom_start = None THEN NoRedraw(chart, "handle_zoom")
  ELSE LET x == chart.zoom_start[1]
           y == chart.zoom_start[2]
           zoom_type == chart.zoom_start[3]
       IN  /\ moves < MaxMoves
           /\ moves' = moves + 1
           /\ EndsInRedraw(
                IF zoom_type = "price"
                THEN [chart EXCEPT
                        !.vertical_zoom =
                           clamp_zoom(scale_zoom(@, exp200(-(e.y - y)))),
                        !.zoom_start = <<e.x, e.y, zoom_type>>]
                ELSE [chart EXCEPT
                        !.horizontal_zoom =
                           clamp_zoom(scale_zoom(@, exp200(e.x - x))),
                        !.zoom_start = <<e.x, e.y, zoom_type>>],
                "handle_zoom")

\* end_zoom(event)
end_zoom == NoRedraw([chart EXCEPT !.zoom_start = None], "end_zoom")

\* ------------------------------------------------------------ input sets
Strike(k) == Price(5000 + 5 * (k - 1), 0)
RowKinds == {"both", "nocall", "nogreeks"}
RowOf(k, kind) ==
  CASE kind = "both" ->
         Row(Strike(k), CallTicker(TRUE, 1, 2, k), PutTicker(TRUE, -10, 1, 2))
    [] kind = "nocall" ->
         Row(Strike(k), NoTicker, PutTicker(TRUE, -10, 1, 2))
    [] kind = "nogreeks" ->
         Row(Strike(k), CallTicker(FALSE, 0, 2, k), PutTicker(FALSE, 0, 1, 2))
\* a snapshot: rows for the strikes 1..n, n <= MaxRows, each of some kind
Snapshots ==
  { [k \in 1..Len(kinds) |-> RowOf(k, kinds[k])] :
      kinds \in SeqsUpTo(RowKinds, MaxRows) \ {<<>>} }
Spots == {None, Some(Price(5000, 0))}

\* a short quote history, and a flat one whose price scale is degenerate
FewHistories ==
  { << QuoteBar(Price(5000, 0), Price(5000, 2)), TradeBar(Price(5002, 2)) >>,
    << TradeBar(Price(5002, 2)) >> }

\* pointer positions: two on the right margin, two on the bottom margin
Points ==
  { [x |-> 1300, y |-> 120], [x |-> 1300, y |-> 620],
    [x |-> 300, y |-> 720], [x |-> 400, y |-> 720] }

\* ------------------------------------------------------- specifications
\* The price feed: history pushes and live ticks.
NextPrice ==
  \/ \E bars \in Histories : update_history(bars)
  \/ \E q \in Quotes : update_prices(Some(q[1]), Some(q[2]))

SpecPrice == Init /\ [][NextPrice]_vars

\* The options feed and the formula selector, over a few price histories.
NextOptions ==
  \/ \E rows \in Snapshots, spot \in Spots : update_chart(rows, spot)
  \/ \E et \in ExposureTypes : on_exposure_changed(et)
  \/ \E bars \in FewHistories : update_history(bars)

SpecOptions == Init /\ [][NextOptions]_vars

\* Zoom gestures (Ctrl-drags) over a few price histories.
NextZoom ==
  \/ \E e \in Points : start_zoom(e)
  \/ \E e \in Points : handle_zoom(e)
  \/ end_zoom
  \/ \E bars \in FewHistories : update_history(bars)

SpecZoom == Init /\ [][NextZoom]_vars

\* Pan and zoom gestures, interleaved, over a few price histories.
NextGesture ==
  \/ \E e \in Points : start_drag(e)
  \/ \E e \in Points : handle_drag(e)
  \/ end_drag
  \/ NextZoom

SpecGesture == Init /\ [][NextGesture]_vars

\* Both feeds, the formula selector and redraw() called on its own.
FewSnapshots ==
  { << RowOf(1, "both"), RowOf(2, "nocall") >>, << RowOf(1, "nogreeks") >> }
NextRedraw ==
  \/ call_redraw
  \/ \E q \in Quotes : update_prices(Some(q[1]), Some(q[2]))
  \/ \E bars \in FewHistories \cup {<<>>} : update_history(bars)
  \/ \E rows \in FewSnapshots, spot \in Spots : update_chart(rows, spot)
  \/ \E et \in {"OI", "GFL"} : on_exposure_changed(et)

SpecRedraw == Init /\ [][NextRedraw]_vars

\* All six gesture handlers over a chart that shows a history and a snapshot.
ViewPoints ==
  { [x |-> 1300, y |-> 120], [x |-> 1300, y |-> 620], [x |-> 300, y |-> 720] }
PressPoints == { [x |-> 1300, y |-> 120], [x |-> 300, y |-> 720] }
NextView ==
  \/ \E e \in PressPoints : start_drag(e)
  \/ \E e \in ViewPoints : handle_drag(e)
  \/ end_drag
  \/ \E e \in PressPoints : start_zoom(e)
  \/ \E e \in ViewPoints : handle_zoom(e)
  \/ end_zoom
  \/ update_history(<< QuoteBar(Price(5000, 0), Price(5000, 2)),
                       TradeBar(Price(5002, 2)) >>)
  \/ update_chart(<< RowOf(1, "both"), RowOf(2, "nocall") >>, Some(Price(5000, 0)))

SpecView == Init /\ [][NextView]_vars

\* Every interleaving of the six pointer handlers, with the history of the
\* gestures kept, from a chart at its initial zoom or zoomed by one Ctrl-drag
\* of 300 pixels up the price axis.
ZoomedIn == clamp_zoom(scale_zoom(ZoomUnit, exp200(300)))
PointerPoints ==
  { [x |-> 1300, y |-> 120], [x |-> 1300, y |-> 420],
    [x |-> 300, y |-> 720], [x |-> 600, y |-> 420] }
\* where the button goes down: on the price axis, on the time axis, in the plot
PointerPressPoints ==
  { [x |-> 1300, y |-> 420], [x |-> 300, y |-> 720], [x |-> 600, y |-> 420] }
InitPointer ==
  /\ chart \in { [NewChart(CanvasWidth, CanvasHeight) EXCEPT !.vertical_zoom = z] :
                   z \in {ZoomUnit, ZoomedIn} }
  /\ canvas = <<>>
  /\ err = "none"
  /\ lastOp = "init"
  /\ moves = 0
  /\ probe = Tracking(chart)
NextPointer ==
  \/ \E e \in PointerPressPoints : start_drag(e)
  \/ \E e \in PointerPoints : handle_drag(e)
  \/ end_drag
  \/ \E e \in PointerPressPoints : start_zoom(e)
  \/ \E e \in PointerPoints : handle_zoom(e)
  \/ end_zoom

SpecPointer == InitPointer /\ [][NextPointer]_vars

\* Start-up: the window is built with the canvas not yet laid out (Tk reports
\* width = height = 1), __init__ has armed the 100 ms timer of initialize_chart,
\* and the feeds may push before or after the layout pass.  probe holds the
\* timer: pending (armed), polls (runs that found the canvas degenerate, up to
\* MaxPolls) and grids (runs that drew the empty grid).
Unmapped == 1
NotLaidOut(c) == c.winfo_height <= Unmapped
InitStartup ==
  /\ chart = NewChart(Unmapped, Unmapped)
  /\ canvas = <<>>
  /\ err = "none"
  /\ lastOp = "init"
  /\ moves = 0
  /\ probe = [fn |-> "after", pending |-> TRUE, polls |-> 0, grids |-> 0]

\* the items left when _draw_empty_grid has deleted those of self.grid_lines
clear_grid_lines(items) ==
  SelectSeq(items, LAMBDA it : it.kind \notin {"grid", "axis"})

\* variant: an initializer that does not re-arm its timer
initialize_chart_once ==
  /\ probe.pending
  /\ IF chart.winfo_height > Unmapped
     THEN /\ canvas' = clear_grid_lines(canvas) \o draw_empty_grid(chart).items
          /\ probe' = [probe EXCEPT !.pending = FALSE, !.grids = @ + 1]
     ELSE /\ canvas' = canvas
          /\ probe' = [probe EXCEPT !.pending = FALSE,
                                    !.polls = Min2(@ + 1, MaxPolls)]
  /\ err' = "none"
  /\ lastOp' = "initialize_chart"
  /\ UNCHANGED <<chart, moves>>
\* the timer fires: initialize_chart
initialize_chart ==
  /\ probe.pending
  /\ IF chart.winfo_height > Unmapped
     THEN /\ canvas' = clear_grid_lines(canvas) \o draw_empty_grid(chart).items
          /\ probe' = [probe EXCEPT !.pending = FALSE, !.grids = @ + 1]
     ELSE /\ canvas' = canvas
          /\ probe' = [probe EXCEPT !.pending = TRUE,
                                    !.polls = Min2(@ + 1, MaxPolls)]
  /\ err' = "none"
  /\ lastOp' = "initialize_chart"
  /\ UNCHANGED <<chart, moves>>

\* the window's layout pass gives the canvas its size
layout(w, h) ==
  /\ NotLaidOut(chart)
  /\ chart' = [chart EXCEPT !.winfo_width = w, !.winfo_height = h]
  /\ lastOp' = "layout"
  /\ UNCHANGED <<canvas, err, moves, probe>>

NextStartup ==
  \/ initialize_chart
  \/ layout(CanvasWidth, CanvasHeight)
  \/ \E q \in Quotes : update_prices(Some(q[1]), Some(q[2]))
  \/ \E bars \in FewHistories : update_history(bars)
  \/ \E rows \in FewSnapshots : update_chart(rows, None)

\* Tk runs an armed timer callback once its delay has passed
SpecStartup == InitStartup /\ [][NextStartup]_vars /\ WF_vars(initialize_chart)

\* Histories of up to MaxCount samples under time-axis zoom gestures.
LongHistory(n) ==
  [i \in 1..n |-> QuoteBar(Price(5000, i % 4), Price(5001, i % 2))]
TimePoints == { [x |-> 300, y |-> 720], [x |-> 400, y |-> 720] }
NextTimeAxis ==
  \/ \E n \in 0..MaxCount : update_history(LongHistory(n))
  \/ \E e \in TimePoints : start_zoom(e)
  \/ \E e \in TimePoints : handle_zoom(e)
  \/ end_zoom

SpecTimeAxis == Init /\ [][NextTimeAxis]_vars

\* ------------------------------------------- functions applied on their own
\* _calculate_exposure on one ticker, on a chart whose quote and formula have
\* been set by update_options / update_prices.
ProbeTickers ==
  { NoTicker,
    CallTicker(FALSE, 0, 500, 1000),
    CallTicker(TRUE, 40, 500, 1000),
    PutTicker(TRUE, -40, 500, 1000),
    PutTicker(TRUE, -25, 0, 3),
    CallTicker(TRUE, 0, 7, 2),
    CallTicker(TRUE, 1, 1, 1),
    PutTicker(FALSE, 0, 0, 0) }
ProbeSpots == {None, Some(0), Some(Price(5000, 0)), Some(Price(5003, 1))}

InitExposure ==
  /\ \E spot \in ProbeSpots, et \in ExposureTypes :
       chart = [NewChart(CanvasWidth, CanvasHeight) EXCEPT
                  !.current_bid = spot, !.current_ask = spot, !.exposure_type = et]
  /\ \E t \in ProbeTickers :
       probe = [fn |-> "calculate_exposure", ticker |-> t, done |-> FALSE, result |-> 0]
  /\ canvas = <<>>
  /\ err = "none"
  /\ lastOp = "init"
  /\ moves = 0

ApplyCalculateExposure ==
  /\ ~probe.done
  /\ probe' = [probe EXCEPT
                 !.done = TRUE,
                 !.result = calculate_exposure(chart.current_bid, probe.ticker,
                                               chart.exposure_type)]
  /\ UNCHANGED <<chart, canvas, err, lastOp, moves>>

SpecExposure == InitExposure /\ [][ApplyCalculateExposure]_vars

\* _price_to_y on single prices, on a chart whose price scale comes from a
\* pushed history and whose viewport has been zoomed and panned.
WellFormed(bars) == \A i \in 1..Len(bars) : HasBidAsk(bars[i]) \/ HasClose(bars[i])
ProbeScales ==
  {None} \cup {new_price_scale(bars) : bars \in {h \in Histories : h # <<>> /\ WellFormed(h)}}
ProbeZooms == {ZoomUnit \div 2, ZoomUnit, 2 * ZoomUnit}
ProbeOffsets == {0, Tick}
\* prices below, on and above the scale bounds
ProbePrices(scale) ==
  IF scale = None THEN {Price(5000, 0), Price(5001, 0)}
  ELSE {scale[1] + (k * (scale[2] - scale[1])) \div 4 : k \in -1..5}

InitTransform ==
  /\ \E scale \in ProbeScales, vz \in ProbeZooms, po \in ProbeOffsets :
       chart = [NewChart(CanvasWidth, CanvasHeight) EXCEPT
                  !.price_scale = scale, !.vertical_zoom = vz, !.price_offset = po]
  /\ probe = [fn |-> "price_to_y", results |-> {}]
  /\ canvas = <<>>
  /\ err = "none"
  /\ lastOp = "init"
  /\ moves = 0

ApplyPriceToY ==
  \E p \in ProbePrices(chart.price_scale) :
    /\ \A r \in probe.results : r.price # p
    /\ IF ZeroWindow(chart)
       THEN err' = "ZeroDivisionError" /\ UNCHANGED probe
       ELSE /\ err' = "none"
            /\ probe' = [probe EXCEPT
                           !.results = @ \cup {[price |-> p,
                                                y |-> price_to_y(chart, RatInt(p))]}]
    /\ lastOp' = "price_to_y"
    /\ UNCHANGED <<chart, canvas, moves>>

SpecTransform == InitTransform /\ [][ApplyPriceToY]_vars

\* ================================================================= claims
ZoomInRange(z) == ZoomUnit \div 10 <= z /\ z <= 10 * ZoomUnit
ItemsOf(kinds) == {canvas[i] : i \in {j \in DOMAIN canvas : canvas[j].kind \in kinds}}
\* same-denominator comparison of two coordinates computed in one state
YLt(a, b) == a.d = b.d /\ a.n < b.n

\* C1: under zoom gestures alone (any sequence of Ctrl-drag deltas, of either
\* sign, small or large), vertical_zoom and horizontal_zoom both stay within
\* [0.1, 10.0].
C1_ZoomClamped ==
  ZoomInRange(chart.vertical_zoom) /\ ZoomInRange(chart.horizontal_zoom)
\* a zoom step has driven both factors to the upper clamp
C1_Witness ==
  /\ lastOp = "handle_zoom"
  /\ moves = 2
  /\ chart.vertical_zoom = 10 * ZoomUnit
  /\ chart.horizontal_zoom = 10 * ZoomUnit

\* C2: under interleaved pans and zooms, horizontal_zoom is never above 10.0
\* and never below 0.1.
C2_HorizontalZoomInRange ==
  chart.horizontal_zoom <= 10 * ZoomUnit /\ chart.horizontal_zoom >= ZoomUnit \div 10

\* C3: at vertical_zoom = 1 and price_offset = 0, over scale bounds with
\* minPrice < maxPrice, _price_to_y is strictly decreasing in price on
\* [minPrice, maxPrice], maps maxPrice to margin_top and minPrice to
\* canvasHeight - margin_bottom.
C3_Scope ==
  /\ probe.fn = "price_to_y"
  /\ chart.vertical_zoom = ZoomUnit
  /\ chart.price_offset = 0
  /\ chart.price_scale # None
  /\ chart.price_scale[1] < chart.price_scale[2]
C3_TransformCorrect ==
  C3_Scope =>
    LET lo == chart.price_scale[1]
        hi == chart.price_scale[2]
        inside == {r \in probe.results : lo <= r.price /\ r.price <= hi}
    IN  /\ \A r1, r2 \in inside : r1.price < r2.price => YLt(r2.y, r1.y)
        /\ \A r \in inside :
             /\ r.price = hi => RatEq(r.y, RatInt(margin_top))
             /\ r.price = lo => RatEq(r.y, RatInt(chart.winfo_height - margin_bottom))
\* both bounds and a price strictly between them have been transformed
C3_Witness ==
  /\ C3_Scope
  /\ \E r1, r2, r3 \in probe.results :
       /\ r1.price = chart.price_scale[1]
       /\ r2.price = chart.price_scale[2]
       /\ r1.price < r3.price /\ r3.price < r2.price

\* C4: after a history whose prices are all equal has been pushed (degenerate
\* scale bounds, maxPrice = minPrice), the redraw completes without a
\* division by zero.
C4_DegenerateScaleSafe ==
  ( /\ lastOp = "update_history"
    /\ chart.price_history # <<>>
    /\ WellFormed(chart.price_history)
    /\ SeqMin(bar_prices(chart.price_history)) = SeqMax(bar_prices(chart.price_history)) )
  => err = "none"

\* C5: every call or put bar on the canvas is at most as long as the available
\* horizontal span (canvas width minus left, right and strike margins), and
\* the bar of a side that holds the snapshot's maximum exposure under the
\* selected formula is exactly that long; when bars are drawn, such a bar is
\* among them.
C5_SideExposure(item) ==
  LET rows == chart.options_data[1]
      row == rows[CHOOSE i \in DOMAIN rows : rows[i].strike = item.key]
  IN  calculate_exposure(chart.current_bid,
                         IF item.kind = "call_bar" THEN row.call ELSE row.put,
                         chart.exposure_type)
C5_SnapshotMax ==
  LET rows == chart.options_data[1]
      all == {calculate_exposure(chart.current_bid, rows[i].call, chart.exposure_type) :
                i \in DOMAIN rows}
             \cup {calculate_exposure(chart.current_bid, rows[i].put, chart.exposure_type) :
                     i \in DOMAIN rows}
  IN  CHOOSE m \in all : \A e \in all : e <= m
C6_AllZeroSnapshotSafe ==
  ( /\ lastOp = "update_options"
    /\ ListTruthy(chart.options_data)
    /\ C5_SnapshotMax = 0 )
  => err = "none" /\ ItemsOf({"call_bar", "put_bar"}) = {}

\* C7: for a ticker with model greeks, the exposure is |delta|*oi*50 under DEX,
\* volume*oi under VOI, oi under OI and |delta|*oi*S under GFL with a known
\* spot S; delta=0.4, oi=1000, volume=500, S=5000 gives 20000, 500000, 1000
\* and 2000000.
C7_Oi(t) == IF t.right = "C" THEN t.callOpenInterest ELSE t.putOpenInterest
C7_Expected(t, et, spot) ==
  CASE et = "DEX" -> (Abs(t.delta) * C7_Oi(t) * 50 * ExpUnit) \div DeltaUnit
    [] et = "VOI" -> t.volume * C7_Oi(t) * ExpUnit
    [] et = "OI" -> C7_Oi(t) * ExpUnit
    [] et = "GFL" -> Abs(t.delta) * C7_Oi(t) * (spot \div Tick)
                        * (ExpUnit \div (DeltaUnit * (PriceUnit \div Tick)))
C7_Example(et) ==
  CASE et = "DEX" -> 20000 * ExpUnit
    [] et = "VOI" -> 500000 * ExpUnit
    [] et = "OI" -> 1000 * ExpUnit
    [] et = "GFL" -> 2000000 * ExpUnit
C7_IsExample ==
  /\ probe.ticker \in {CallTicker(TRUE, 40, 500, 1000), PutTicker(TRUE, -40, 500, 1000)}
  /\ chart.current_bid = Some(Price(5000, 0))
C7_Scope ==
  /\ probe.fn = "calculate_exposure"
  /\ probe.done
  /\ probe.ticker.kind = "ticker"
  /\ probe.ticker.greeks
  /\ Truthy(chart.current_bid)
C7_FormulaCorrect ==
  C7_Scope =>
    /\ probe.result = C7_Expected(probe.ticker, chart.exposure_type, chart.current_bid[1])
    /\ C7_IsExample => probe.result = C7_Example(chart.exposure_type)
\* the spec's example under GFL, on a put (negative delta)
C7_Witness ==
  /\ C7_Scope
  /\ C7_IsExample
  /\ probe.ticker.delta < 0
  /\ chart.exposure_type = "GFL"
  /\ probe.result = 2000000 * ExpUnit

\* C8: under GFL with no spot known (None or 0) the exposure of every option
\* side is 0.
C8_GflWithoutSpotIsZero ==
  ( /\ probe.fn = "calculate_exposure"
    /\ probe.done
    /\ chart.exposure_type = "GFL"
    /\ ~Truthy(chart.current_bid) )
  => probe.result = 0

\* C9: a row whose call ticker is None or has no model greeks has call exposure
\* 0 under every formula and no call bar on the canvas; where the exposure
\* layer is drawn its strike label is there, and its put bar exactly when the
\* put exposure is positive.
C9_CallAbsent(row) == row.call.kind = "None" \/ ~row.call.greeks
C9_LayerDrawn == ItemsOf({"strike_label"}) # {}
C9_Has(kind, row) == \E it \in ItemsOf({kind}) : it.key = row.strike
C10_TickUpdatesLastSample ==
  ( /\ lastOp = "update_prices"
    /\ Len(chart.price_history) >= 1
    /\ \A i \in DOMAIN chart.price_history : HasBidAsk(chart.price_history[i]) )
  => LET last == chart.price_history[Len(chart.price_history)]
     IN  Some(last.bid) = chart.current_bid /\ Some(last.ask) = chart.current_ask

\* the kinds of item each layer of redraw() draws
GridKinds == {"grid", "axis"}
PriceKinds == {"price_grid", "price_label", "bid_line", "ask_line",
               "bid_label", "ask_label", "time_label"}
ExposureKinds == {"call_bar", "put_bar", "strike_label"}
IndicatorKinds == {"current_price"}
Positions(kinds) == {i \in DOMAIN canvas : canvas[i].kind \in kinds}
Before(k1, k2) == \A i \in Positions(k1), j \in Positions(k2) : i < j
\* the handlers of the feeds, each of which ends in redraw()
RedrawingOps == {"redraw", "update_prices", "update_history", "update_options"}

\* C11: after every redraw that completes, the canvas holds the grid, then the
\* price-history layer iff a price history is cached, then the exposure bars
\* iff an options snapshot is cached, then the current-price indicator iff a
\* bid and ask are known, in each of the snapshot states none, price, options
\* and both.
C11_LayersInOrder ==
  (lastOp \in RedrawingOps /\ err = "none") =>
    /\ Positions(GridKinds) # {}
    /\ Positions(PriceKinds) # {} <=> chart.price_history # <<>>
    /\ Positions(ExposureKinds) # {} <=> ListTruthy(chart.options_data)
    /\ Positions(IndicatorKinds) # {}
         <=> (Truthy(chart.current_bid) /\ Truthy(chart.current_ask))
    /\ Before(GridKinds, PriceKinds)
    /\ Before(PriceKinds, ExposureKinds)
    /\ Before(GridKinds \cup PriceKinds \cup ExposureKinds, IndicatorKinds)

\* C12: redraw() called right after a redraw, with no change of cached data,
\* viewport, formula or canvas size in between, leaves the same primitives
\* with the same geometry on the canvas, and the same outcome.
C12_RedrawIdempotent ==
  [][ (lastOp \in RedrawingOps /\ lastOp' = "redraw")
        => (chart' = chart /\ canvas' = canvas /\ err' = err) ]_vars
\* a repeated redraw of a chart that shows lines, bars and the indicator
C12_Witness ==
  /\ lastOp = "redraw"
  /\ Positions({"bid_line"}) # {}
  /\ Positions({"put_bar"}) # {}
  /\ Positions(IndicatorKinds) # {}

\* C13: on a chart to which no history, options or quote has been pushed,
\* redraw() raises nothing and draws the five grid lines and the two axes and
\* nothing else.
C13_Fresh ==
  /\ chart.price_history = <<>>
  /\ chart.price_scale = None
  /\ chart.options_data = None
  /\ chart.current_bid = None
  /\ chart.current_ask = None
C13_EmptyStateGridOnly ==
  (lastOp = "redraw" /\ C13_Fresh) =>
    /\ err = "none"
    /\ Len(canvas) = 7
    /\ Cardinality(Positions({"grid"})) = 5
    /\ Cardinality(Positions({"axis"})) = 2
\* redraw() has run on the chart as constructed
C13_Witness ==
  /\ lastOp = "redraw"
  /\ chart = NewChart(CanvasWidth, CanvasHeight)
  /\ Positions(GridKinds) # {}


\* C14: every gesture handler leaves the cached history, price scale, options
\* snapshot, maximum exposure, formula, bid/ask and canvas size as they were,
\* and each handle_drag / handle_zoom step taken with an active anchor leaves
\* on the canvas the redraw of those cached snapshots under the new viewport.
GestureOps == {"start_drag", "handle_drag", "end_drag",
               "start_zoom", "handle_zoom", "end_zoom"}
CachedData(c) ==
  << c.price_history, c.price_scale, c.options_data, c.max_exposure,
     c.exposure_type, c.current_bid, c.current_ask, c.winfo_width, c.winfo_height >>
C14_GestureFrame ==
  [][ lastOp' \in GestureOps =>
        /\ CachedData(chart') = CachedData(chart)
        /\ ( \/ lastOp' = "handle_drag" /\ chart.drag_start # None
             \/ lastOp' = "handle_zoom" /\ chart.zoom_start # None )
           => (canvas' = redraw(chart').items /\ err' = redraw(chart').err) ]_vars
\* a pan and a zoom have moved the viewport under a drawn history and snapshot
C14_Witness ==
  /\ lastOp \in {"handle_drag", "handle_zoom"}
  /\ chart.price_offset # 0
  /\ chart.vertical_zoom # ZoomUnit
  /\ chart.price_history # <<>>
  /\ ListTruthy(chart.options_data)
  /\ Positions({"bid_line"}) # {}
  /\ Positions({"call_bar"}) # {}


\* ------------------------------------------------ OptionsChart, on its own
\* OptionsChart keeps price_scale as one number (the top of the axis), has no
\* top margin and pans in pixels; prices here are whole dollars.
Dollars(p) == p \div PriceUnit
\* OptionsChart._price_to_y(price, y_scale), with y_scale the rational ys
OptionsChart_price_to_y(c, price, ys) ==
  LET usable == c.winfo_height - margin_bottom
  IN  Rat(margin_bottom * ys.n + (ys.n - price * ys.d) * usable + c.price_offset * ys.n,
          ys.n)
\* y_scale / self.vertical_zoom, as draw_price_history and draw_price_line use it
OptionsChart_zoomed_scale(c) == Rat(c.price_scale * ZoomUnit, c.vertical_zoom)
\* draw_delta_chart: the y of the bars and the label of each row
draw_delta_chart_rows(c) ==
  LET data == c.current_data
      bar_height == Rat(c.winfo_height - margin_bottom, Len(data) + 1)
  IN  [i \in 1..Len(data) |->
         [strike |-> Dollars(data[i].strike),
          y |-> Rat(i * bar_height.n, bar_height.d)]]

OptionsChartScales == {5003, 5010}
OptionsChartZooms == {ZoomUnit \div 2, ZoomUnit, 2 * ZoomUnit}
OptionsChartOffsets == {0, 10}
InitDeltaChart ==
  /\ \E data \in Snapshots, y_scale \in OptionsChartScales,
        vz \in OptionsChartZooms, off \in OptionsChartOffsets :
       chart = [current_data |-> data, price_scale |-> y_scale,
                vertical_zoom |-> vz, price_offset |-> off,
                winfo_width |-> CanvasWidth, winfo_height |-> CanvasHeight]
  /\ probe = [fn |-> "draw_delta_chart", done |-> FALSE, results |-> <<>>]
  /\ canvas = <<>>
  /\ err = "none"
  /\ lastOp = "init"
  /\ moves = 0
ApplyDrawDeltaChart ==
  /\ ~probe.done
  /\ probe' = [probe EXCEPT !.done = TRUE, !.results = draw_delta_chart_rows(chart)]
  /\ lastOp' = "draw_delta_chart"
  /\ UNCHANGED <<chart, canvas, err, moves>>
SpecDeltaChart == InitDeltaChart /\ [][ApplyDrawDeltaChart]_vars

\* C15: each strike row's bars and label are drawn at y = priceToY(strike),
\* the transform (scale, vertical zoom, offset) that positions the price
\* samples of the same chart; the row's index plays no part.
C15_StrikeAnchored ==
  (probe.fn = "draw_delta_chart" /\ probe.done) =>
    \A i \in DOMAIN probe.results :
      RatEq(probe.results[i].y,
            OptionsChart_price_to_y(chart, probe.results[i].strike,
                                    OptionsChart_zoomed_scale(chart)))


\* C16: a formula change (the combobox handler calling update_options) changes
\* the active formula and nothing else: the options snapshot, the price
\* history, the price scale, the viewport and the live bid and ask keep their
\* values.
C16_AllButFormula(c) ==
  << c.options_data, c.max_exposure, c.price_history, c.price_scale,
     c.vertical_zoom, c.horizontal_zoom, c.price_offset, c.zoom_start,
     c.drag_start, c.current_bid, c.current_ask >>
C16_FormulaChangeFrame ==
  [][ (\E et \in ExposureTypes : on_exposure_changed(et))
        => C16_AllButFormula(chart') = C16_AllButFormula(chart) ]_vars

\* C17: after every update_history(bars) that completes, the cached history is
\* bars and the scale bounds are those of bars alone; after a push of an empty
\* sequence no bounds of an earlier push are left.
C17_ScaleOfBars(bars) ==
  IF bars = <<>> THEN None
  ELSE LET prices == bar_prices(bars)
           lo == SeqMin(prices)
           hi == SeqMax(prices)
       IN  <<lo - (hi - lo) \div 10, hi + (hi - lo) \div 10>>
C17_ScaleFollowsPush ==
  (lastOp = "update_history" /\ err # "AttributeError") =>
    chart.price_scale = C17_ScaleOfBars(chart.price_history)


\* ------------------------------------- update_history's scale, on its own
\* PriceChart.update_history: the price scale it computes
PriceChart_new_price_scale(bars) ==
  LET prices == bar_prices(bars)
      min_price == SeqMin(prices)
      max_price == SeqMax(prices)
      price_range == max_price - min_price
  IN  Some2(min_price, max_price + price_range \div 10)

ScaleSamples ==
  { QuoteBar(Price(5000, 0), Price(5000, 2)), QuoteBar(Price(5001, 1), Price(5001, 2)),
    QuoteBar(Price(4998, 0), Price(4998, 1)), TradeBar(Price(5002, 2)),
    TradeBar(Price(4999, 3)) }
ChartClasses == {"UnifiedChart", "PriceChart"}
InitScale ==
  /\ \E cls \in ChartClasses :
       chart = [class |-> cls, price_history |-> <<>>, price_scale |-> None]
  /\ \E bars \in SeqsUpTo(ScaleSamples, MaxBars) \ {<<>>} :
       probe = [fn |-> "update_history", bars |-> bars, done |-> FALSE]
  /\ canvas = <<>>
  /\ err = "none"
  /\ lastOp = "init"
  /\ moves = 0
ApplyUpdateHistory ==
  /\ ~probe.done
  /\ chart' = [chart EXCEPT
                 !.price_history = probe.bars,
                 !.price_scale = IF chart.class = "UnifiedChart"
                                 THEN new_price_scale(probe.bars)
                                 ELSE PriceChart_new_price_scale(probe.bars)]
  /\ probe' = [probe EXCEPT !.done = TRUE]
  /\ lastOp' = "update_history"
  /\ UNCHANGED <<canvas, err, moves>>
SpecScale == InitScale /\ [][ApplyUpdateHistory]_vars

\* C18: after a push of a non-empty history the scale bounds are
\* (min - 0.1*(max - min), max + 0.1*(max - min)), min and max taken over every
\* bid and ask (or close) of the pushed samples: the margin is on both sides.
C18_MarginOnBothSides ==
  (probe.fn = "update_history" /\ probe.done) =>
    LET prices == bar_prices(chart.price_history)
        lo == SeqMin(prices)
        hi == SeqMax(prices)
    IN  chart.price_scale = <<lo - (hi - lo) \div 10, hi + (hi - lo) \div 10>>

\* C19: a pushed history that contains a sample with neither bid/ask nor close
\* does not abort: update_history and its redraw complete without error and
\* the well-formed samples are drawn.
C19_MalformedSampleSkipped ==
  ( /\ lastOp = "update_history"
    /\ \E i \in DOMAIN chart.price_history :
         ~HasBidAsk(chart.price_history[i]) /\ ~HasClose(chart.price_history[i]) )
  => /\ err = "none"
     /\ Positions(GridKinds) # {}


\* C20: whatever the number of visible samples, the time axis carries at most
\* 5 labels, at the indices 0, step, 2*step, ... below that number, with
\* step = max(1, count div 4).
C20_AtMostFiveLabels ==
  (lastOp \in {"update_history", "handle_zoom"} /\ err = "none"
     /\ chart.price_history # <<>>) =>
    LET count == Len(get_visible_bars(chart))
        step == IF count \div 4 >= 1 THEN count \div 4 ELSE 1
        keys == {canvas[i].key : i \in Positions({"time_label"})}
    IN  /\ Cardinality(Positions({"time_label"})) <= 5
        /\ keys = {i \in 0..(count - 1) : i % step = 0}


\* C21: with two or more visible samples the index-to-x map of the price
\* lines is linear, sends index 0 to margin_left and sends the last index to
\* the right edge of the plot area, width - margin_right - strike_margin.
C21_IndexToX ==
  \A l \in ItemsOf({"bid_line", "ask_line"}) :
    LET n == Len(l.pts)
    IN  n >= 2 =>
          /\ \A i \in 1..n : l.pts[i].x.d = n
          /\ \A i \in 1..(n - 1) :
               l.pts[i + 1].x.n - l.pts[i].x.n = l.pts[2].x.n - l.pts[1].x.n
          /\ RatEq(l.pts[1].x, RatInt(margin_left))
          /\ RatEq(l.pts[n].x,
                   RatInt(chart.winfo_width - margin_right - strike_margin))


\* C22 as stated: from any reachable vertical_zoom, a price-axis zoom step by
\* dy followed by one by -dy, with factor k = exp(-dy/200) in [0.1, 10],
\* restores vertical_zoom (to within 5% and one unit of the zoom's
\* resolution) and leaves the rest of the price-to-y mapping as it was.
C22_Close(a, b) == 20 * Abs(a - b) <= b + 20
C22_Dy1 == chart.zoom_start[2] - probe.before.zoom_start[2]
C22_Dy2 == chart'.zoom_start[2] - chart.zoom_start[2]
\* two consecutive anchored zoom steps on the price axis, by dy and then -dy
C22_BackAndForth ==
  /\ lastOp = "handle_zoom" /\ lastOp' = "handle_zoom"
  /\ probe.before.zoom_start # None /\ chart.zoom_start # None
  /\ probe.before.zoom_start[3] = "price" /\ chart.zoom_start[3] = "price"
  /\ C22_Dy1 # 0 /\ C22_Dy2 = -C22_Dy1
  /\ exp200(C22_Dy1) \in (ZoomUnit \div 10)..(10 * ZoomUnit)
  /\ exp200(-C22_Dy1) \in (ZoomUnit \div 10)..(10 * ZoomUnit)
C22_Restored ==
  /\ C22_Close(chart'.vertical_zoom, probe.before.vertical_zoom)
  /\ chart'.price_scale = probe.before.price_scale
  /\ chart'.price_offset = probe.before.price_offset
  /\ chart'.winfo_height = probe.before.winfo_height
C22_ZoomRoundTrip == [][C22_BackAndForth => C22_Restored]_vars

\* C22 amended: the same, provided the first step's product vertical_zoom * k
\* lies within [0.1, 10], so that the clamp does not cut it.
C22_Unclamped ==
  scale_zoom(probe.before.vertical_zoom, exp200(-C22_Dy1))
    \in (ZoomUnit \div 10)..(10 * ZoomUnit)
C22_UnclampedRoundTrip ==
  [][(C22_BackAndForth /\ C22_Unclamped) => C22_Restored]_vars
\* from the initial zoom, a Ctrl-drag from y = 420 up to 120 and back down to
\* 420 has just ended: 1.0 -> 4.48 -> 0.99
C22_Witness ==
  /\ lastOp = "handle_zoom"
  /\ moves = 2
  /\ probe.before.zoom_start # None /\ chart.zoom_start # None
  /\ probe.before.zoom_start[3] = "price" /\ chart.zoom_start[3] = "price"
  /\ probe.before.zoom_start[2] = 120 /\ chart.zoom_start[2] = 420
  /\ probe.before.vertical_zoom = scale_zoom(ZoomUnit, exp200(300))
  /\ C22_Close(chart.vertical_zoom, ZoomUnit)


\* C30: while vertical_zoom keeps its value, a price-axis pan is path
\* independent: whatever motion events have led the pointer from the press at
\* y0 to its present y, price_offset has changed by 0.05 * vertical_zoom *
\* (y - y0) since the press; back at y0 it is what it was.
C30_PanPathIndependent ==
  (probe.fn = "track" /\ probe.pan_origin # None /\ chart.drag_start # None) =>
    LET y0 == probe.pan_origin[1]
        offset0 == probe.pan_origin[2]
    IN  /\ chart.drag_start[3] = "price"
        /\ chart.price_offset =
             offset0 + ((chart.drag_start[2] - y0) * PriceUnit * chart.vertical_zoom)
                          \div (20 * ZoomUnit)
\* the second motion event of a pan at a zoom other than 1.0 has just run, and
\* both events moved the offset
C30_Witness ==
  /\ lastOp = "handle_drag"
  /\ probe.fn = "track" /\ probe.pan_origin # None /\ chart.drag_start # None
  /\ chart.vertical_zoom = ZoomedIn
  /\ probe.before.price_offset # probe.pan_origin[2]
  /\ probe.before.price_offset # chart.price_offset
  /\ chart.price_offset # probe.pan_origin[2]


\* C27: in every interleaving of the six pointer events, a motion event changes
\* vertical_zoom, horizontal_zoom or price_offset only if the most recent
\* button press of its kind (plain for a motion, Ctrl for a Ctrl-motion)
\* landed inside the right or the bottom axis margin.
C27_ViewportChanged ==
  \/ chart'.vertical_zoom # chart.vertical_zoom
  \/ chart'.horizontal_zoom # chart.horizontal_zoom
  \/ chart'.price_offset # chart.price_offset
C27_NoStaleAnchor ==
  [][ /\ (lastOp' = "handle_drag" /\ C27_ViewportChanged)
           => probe.drag_press = "inside"
      /\ (lastOp' = "handle_zoom" /\ C27_ViewportChanged)
           => probe.zoom_press = "inside" ]_vars


\* C23: the snapshot state (which feeds are cached) only moves forward, Empty
\* to HasPriceOnly or HasOptionsOnly to HasPriceAndOptions, and only through
\* pushes; every event ends in a completed redraw without error; no tick and
\* no formula change alters which feeds are cached.
C23_HasPrice(c) == c.price_history # <<>>
C23_HasOptions(c) == ListTruthy(c.options_data)
C23_Feeds(c) == <<C23_HasPrice(c), C23_HasOptions(c)>>
C23_SnapshotStateMachine ==
  [][ /\ C23_HasPrice(chart) => C23_HasPrice(chart')
      /\ C23_HasOptions(chart) => C23_HasOptions(chart')
      /\ C23_Feeds(chart') # C23_Feeds(chart)
           => lastOp' \in {"update_history", "update_options"}
      /\ (lastOp' = "update_prices" \/ \E et \in ExposureTypes : on_exposure_changed(et))
           => C23_Feeds(chart') = C23_Feeds(chart)
      /\ err' = "none"
      /\ canvas' = redraw(chart').items ]_vars


\* C28: for a cached history of n >= 1 samples and any reachable
\* horizontal_zoom, the visible window is the suffix of the history of length
\* min(n, floor(n / horizontal_zoom)), and it is never empty.
C28_VisibleSuffix ==
  chart.price_history # <<>> =>
    LET n == Len(chart.price_history)
        k == Min2(n, (n * ZoomUnit) \div chart.horizontal_zoom)
        visible == get_visible_bars(chart)
    IN  /\ Len(visible) = k
        /\ \A i \in 1..Len(visible) :
             visible[i] = chart.price_history[n - Len(visible) + i]
        /\ Len(visible) >= 1

\* C29: wherever redraw() draws option rows, the options-only state included,
\* the price-to-y transform is strictly decreasing in price: of two rows, the
\* one with the higher strike is drawn strictly higher up (smaller y).
C29_RowsApart ==
  \A a, b \in ItemsOf({"strike_label"}) :
    a.key < b.key => YLt(b.y, a.y)


\* C24: the deferred initializer draws nothing while the canvas reports
\* height <= 1 and re-arms its timer; once the canvas reports height > 1 it
\* draws the empty grid exactly once and arms no further poll; so if layout
\* completes the grid is eventually drawn and polling stops.
C24_DeferredInit ==
  /\ [](/\ probe.grids <= 1
        /\ probe.pending <=> probe.grids = 0
        /\ NotLaidOut(chart) => probe.pending)
  /\ [][ lastOp' = "initialize_chart" =>
           IF NotLaidOut(chart)
           THEN canvas' = canvas /\ probe'.pending /\ probe'.grids = probe.grids
           ELSE /\ probe'.grids = probe.grids + 1 /\ ~probe'.pending
                /\ ItemsOf(GridKinds)' # {} ]_vars
  /\ (~NotLaidOut(chart)) ~> (~probe.pending /\ probe.grids = 1)
\* the initializer polled a canvas not yet laid out, the layout pass came, and
\* the next poll drew the grid and stopped
C24_Witness ==
  /\ lastOp = "initialize_chart"
  /\ probe.polls >= 1
  /\ ~probe.pending /\ probe.grids = 1
  /\ ItemsOf(GridKinds) # {}

\* C25: a push or tick that reaches redraw() while the canvas is not laid out
\* (width or height <= 1) raises no error and draws no price-history, exposure
\* or current-price primitive, whatever data is cached.
C25_DegenerateCanvasNoOp ==
  ( /\ lastOp \in {"update_prices", "update_history", "update_options"}
    /\ (chart.winfo_width <= 1 \/ chart.winfo_height <= 1) )
  => /\ err = "none"
     /\ ItemsOf(PriceKinds \cup ExposureKinds \cup IndicatorKinds) = {}


\* ------------------------------------------------ PriceChart on BaseChart
\* PriceChart keeps the ids of the items it has created in price_lines,
\* current_price_line, price_labels and time_labels and deletes those before
\* it draws again; an item of a kind that no list holds stays on the canvas.
PriceChart_usable_width(c) == c.winfo_width - margin_left - margin_right
PriceChart_usable_height(c) == c.winfo_height - margin_top - margin_bottom
Without(items, kinds) == SelectSeq(items, LAMBDA it : it.kind \notin kinds)

\* BaseChart._draw_price_scale: deletes the old labels, then draws five levels,
\* each a grid line (its id is dropped) and a label (kept in price_labels)
BaseChart_draw_price_scale(c, items) ==
  LET y(i) == Rat(margin_top * 4 + i * PriceChart_usable_height(c), 4)
      level(i) ==
        << Item("price_grid", i, RatInt(margin_left), y(i),
                RatInt(PriceChart_usable_width(c))),
           Item("price_label", i, RatInt(c.winfo_width - margin_right + 50),
                y(i), RatInt(0)) >>
  IN  Without(items, {"price_label"})
        \o level(0) \o level(1) \o level(2) \o level(3) \o level(4)

\* PriceChart._price_to_y, for a scale that is set and not flat
PriceChart_price_to_y(c, price) ==
  LET min_price == c.price_scale[1]
      max_price == c.price_scale[2]
      price_range == max_price - min_price
  IN  Rat(margin_top * price_range + (max_price - price) * PriceChart_usable_height(c),
          price_range)

\* PriceChart._draw_time_axis: deletes the old labels, then draws the new ones
PriceChart_draw_time_axis(c, items) ==
  LET n == Len(c.price_history)
      idx == time_label_indices(n)
      nth(k) == CHOOSE i \in idx : Cardinality({j \in idx : j < i}) = k - 1
  IN  Without(items, {"time_label"})
        \o [k \in 1..Cardinality(idx) |->
              Item("time_label", nth(k),
                   Rat(margin_left * n + PriceChart_usable_width(c) * nth(k), n),
                   RatInt(c.winfo_height - margin_bottom + 20), RatInt(0))]

\* PriceChart.redraw on a canvas that holds items
PriceChart_redraw(c, items) ==
  IF c.price_history = <<>> THEN Done(items)
  ELSE
    LET bars == c.price_history
        n == Len(bars)
        cleared == Without(items, {"bid_line", "ask_line", "current_price"})
        scaled == IF c.price_scale # None
                  THEN BaseChart_draw_price_scale(c, cleared) ELSE cleared
        flat == c.price_scale # None /\ c.price_scale[1] = c.price_scale[2]
        y(p) == IF c.price_scale = None THEN RatInt(0) ELSE PriceChart_price_to_y(c, p)
        x(i) == Rat(margin_left * n + PriceChart_usable_width(c) * (i - 1), n)
        bid_points == [i \in 1..n |->
           [x |-> x(i),
            y |-> y(IF HasBidAsk(bars[i]) THEN bars[i].bid ELSE bars[i].close)]]
        ask_points == [i \in 1..n |->
           [x |-> x(i),
            y |-> y(IF HasBidAsk(bars[i]) THEN bars[i].ask ELSE bars[i].close)]]
        lines == IF n >= 2
                 THEN <<Polyline("bid_line", bid_points), Polyline("ask_line", ask_points)>>
                 ELSE <<>>
        current ==
          IF Truthy(c.current_bid) /\ Truthy(c.current_ask)
          THEN <<Item("current_price", 0, RatInt(margin_left),
                      y((c.current_bid[1] + c.current_ask[1]) \div 2),
                      RatInt(PriceChart_usable_width(c)))>>
          ELSE <<>>
    IN  IF flat THEN Raised(scaled, "ZeroDivisionError")
        ELSE IF \E i \in 1..n : ~HasBidAsk(bars[i]) /\ ~HasClose(bars[i])
        THEN Raised(scaled, "AttributeError")
        ELSE Done(PriceChart_draw_time_axis(c, scaled \o lines \o current))

\* a PriceChart handler that ends in self.redraw()
PriceChart_EndsInRedraw(c, op) ==
  /\ Len(canvas) < MaxItems
  /\ chart' = c
  /\ LET r == PriceChart_redraw(c, canvas)
     IN  canvas' = r.items /\ err' = r.err
  /\ lastOp' = op
  /\ UNCHANGED <<moves, probe>>
PriceChart_update_prices(bid, ask) ==
  PriceChart_EndsInRedraw([chart EXCEPT !.current_bid = bid, !.current_ask = ask],
                          "update_prices")
PriceChart_update_history(bars) ==
  IF bars # <<>> /\ \E i \in 1..Len(bars) : ~HasBidAsk(bars[i]) /\ ~HasClose(bars[i])
  THEN /\ chart' = [chart EXCEPT !.price_history = bars]
       /\ err' = "AttributeError"
       /\ lastOp' = "update_history"
       /\ UNCHANGED <<canvas, moves, probe>>
  ELSE PriceChart_EndsInRedraw(
         [chart EXCEPT !.price_history = bars,
                       !.price_scale = IF bars # <<>>
                                       THEN PriceChart_new_price_scale(bars) ELSE @],
         "update_history")
PriceChart_call_redraw == PriceChart_EndsInRedraw(chart, "redraw")

NextPriceChart ==
  \/ \E bars \in Histories : PriceChart_update_history(bars)
  \/ \E q \in Quotes : PriceChart_update_prices(Some(q[1]), Some(q[2]))
  \/ PriceChart_call_redraw

SpecPriceChart == Init /\ [][NextPriceChart]_vars

\* C26: PriceChart.redraw performs a full clear: a redraw that follows a
\* completed redraw with the state unchanged leaves on the canvas only the
\* primitives it has created itself, so the number of primitives on the canvas
\* does not grow from one redraw to the next.
C26_FullClear ==
  [][ ( /\ lastOp \in {"redraw", "update_history", "update_prices"}
        /\ lastOp' = "redraw"
        /\ chart' = chart /\ chart.price_history # <<>>
        /\ err = "none" /\ err' = "none" )
      => /\ canvas' = PriceChart_redraw(chart', <<>>).items
         /\ Len(canvas') = Len(canvas) ]_vars


====
